---- MODULE Spec2Model ----
(***************************************************************************)
(* Model of the UFC ELO rating engine (src/elo.py): the adaptive K-factor, *)
(* the rating math and the chronological replay `backfill` that rewrites   *)
(* the elo_history and current_elo tables of the SQLite store.             *)
(*                                                                         *)
(* Real numbers are fixed-point integers:                                  *)
(*   K-factors        in units of 1/KScale  (0.1),                         *)
(*   expected scores  in units of 1/EScale  (0.001),                       *)
(*   ratings          in units of 1/RScale  (0.0001) = 1/(KScale*EScale),  *)
(* so that k * (score - expected) is an exact rating increment.  The       *)
(* rounding of IEEE-754 doubles is below the resolution of this model.     *)
(***************************************************************************)
EXTENDS Integers, Sequences, FiniteSets, TLC

\* ------------------------------------------------------------------------
\* Bounds of the model
\* ------------------------------------------------------------------------
MaxFights == 2
MaxDate == 2
MaxRound == 6

\* ------------------------------------------------------------------------
\* Program constants and number representation
\* ------------------------------------------------------------------------
INITIAL_ELO == 1500
BASE_K == 32

KScale == 2 * 5
EScale == KScale * KScale * KScale
RScale == KScale * EScale

Max(x, y) == IF x >= y THEN x ELSE y

\* SQL NULL / Python None of a TEXT column, a value no text equals.
NULL == "<NULL>"
\* Python None of the INTEGER column finish_round: the empty option.
None == <<>>
Some(n) == <<n>>

\* ------------------------------------------------------------------------
\* Text of the method column: a sequence of characters
\* ------------------------------------------------------------------------
LowerCase == <<"a","b","c","d","e","f","g","h","i","j","k","l","m",
               "n","o","p","q","r","s","t","u","v","w","x","y","z">>
UpperCase == <<"A","B","C","D","E","F","G","H","I","J","K","L","M",
               "N","O","P","Q","R","S","T","U","V","W","X","Y","Z">>

\* str.upper() on one character
UpperChar(c) ==
    IF \E i \in 1..Len(LowerCase) : LowerCase[i] = c
    THEN UpperCase[CHOOSE i \in 1..Len(LowerCase) : LowerCase[i] = c]
    ELSE c

\* str.upper()
Upper(s) == [i \in 1..Len(s) |-> UpperChar(s[i])]

\* str.startswith(prefix)
StartsWith(s, prefix) ==
    /\ Len(s) >= Len(prefix)
    /\ \A i \in 1..Len(prefix) : s[i] = prefix[i]

T_KO == <<"K","O">>
T_TKO == <<"T","K","O">>
T_SUB == <<"S","U","B">>
T_KO_TKO == <<"K","O","/","T","K","O">>
T_U_DEC == <<"U","-","D","E","C">>
T_S_DEC == <<"S","-","D","E","C">>
T_DQ == <<"D","Q">>
T_OVERTURNED == <<"O","v","e","r","t","u","r","n","e","d">>
T_CNC == <<"C","N","C">>
T_OTHER == <<"O","t","h","e","r">>
T_ko == <<"k","o">>
T_Tko == <<"T","k","o">>
T_Submission == <<"S","u","b","m","i","s","s","i","o","n">>
T_TKO_DOCTOR == <<"T","K","O"," ","-"," ","D","r">>
T_OK == <<"O","K">>
T_K == <<"K">>
T_SU == <<"S","U">>
T_EMPTY == <<>>
T_NULL == <<NULL>>

\* Variant: the method is compared without upper-casing it.
classify_method_CaseSensitive(method) ==
    IF method \in {T_KO_TKO, T_SUB, T_TKO, T_KO} THEN "finish"
    ELSE IF StartsWith(method, T_KO) \/ StartsWith(method, T_TKO)
            \/ StartsWith(method, T_SUB)
         THEN "finish"
         ELSE "decision"

\* elo.py classify_method
classify_method(method) ==
    LET m == Upper(method) IN
    IF m \in {T_KO_TKO, T_SUB, T_TKO, T_KO} THEN "finish"
    ELSE IF StartsWith(m, T_KO) \/ StartsWith(m, T_TKO) \/ StartsWith(m, T_SUB)
         THEN "finish"
         ELSE "decision"

\* round_mult of calculate_k, in tenths: max(1.0, 1.3 - 0.1 * (finish_round - 1))
round_mult(finish_round) == Max(10, 13 - (finish_round - 1))

\* Variant: the round multiplier is applied whenever the round is known.
calculate_k_RoundAlways(method, is_title, finish_round) ==
    LET is_finish == classify_method(method) = "finish"
        k0 == BASE_K * KScale
        k1 == IF is_finish THEN (k0 * 15) \div 10 ELSE k0
        k2 == IF is_title THEN (k1 * 125) \div 100 ELSE k1
        k3 == IF finish_round # None
              THEN (k2 * round_mult(finish_round[1])) \div 10
              ELSE k2
    IN k3

\* elo.py calculate_k; the result is in units of 1/KScale.
\* Every product below is an exact multiple of 0.1.
calculate_k(method, is_title, finish_round) ==
    LET is_finish == classify_method(method) = "finish"
        k0 == BASE_K * KScale
        k1 == IF is_finish THEN (k0 * 15) \div 10 ELSE k0
        k2 == IF is_title THEN (k1 * 125) \div 100 ELSE k1
        k3 == IF is_finish /\ finish_round # None
              THEN (k2 * round_mult(finish_round[1])) \div 10
              ELSE k2
    IN k3

\* ------------------------------------------------------------------------
\* ELO math
\* ------------------------------------------------------------------------
\* 1000 / (1 + 10^(d/400)) rounded, for d = -1600, -1550, ..., 1600
LogisticTable ==
    <<1000, 1000, 1000, 1000, 1000, 1000, 999, 999, 999, 999, 998, 998, 997,
      996, 994, 993, 990, 987, 983, 977, 969, 960, 947, 930, 909, 882, 849,
      808, 760, 703, 640, 571, 500, 429, 360, 297, 240, 192, 151, 118, 91,
      70, 53, 40, 31, 23, 17, 13, 10, 7, 6, 4, 3, 2, 2, 1, 1, 1, 1, 0, 0, 0,
      0, 0, 0>>
TableStep == 50 * RScale
TableLow == (0 - 1600) * RScale

\* elo.py expected_score: 1 / (1 + 10 ** ((rb - ra) / 400)), in units of
\* 1/EScale, linearly interpolated between the tabulated points.
expected_score(ra, rb) ==
    LET d == rb - ra
        n == Len(LogisticTable)
        off == d - TableLow
    IN  IF off <= 0 THEN LogisticTable[1]
        ELSE IF off >= (n - 1) * TableStep THEN LogisticTable[n]
        ELSE LET j == (off \div TableStep) + 1
                 rem == off - (j - 1) * TableStep
                 lo == LogisticTable[j]
                 hi == LogisticTable[j + 1]
             IN lo - (((lo - hi) * rem) \div TableStep)

\* Variant: B's expected score is taken to be A's.
update_ratings_SameExpectation(ra, rb, score_a, k) ==
    LET ea == expected_score(ra, rb)
        new_ra == ra + k * (score_a - ea)
        new_rb == rb + k * ((EScale - score_a) - ea)
    IN <<new_ra, new_rb>>

\* elo.py update_ratings; score_a in units of 1/EScale, k in units of 1/KScale
update_ratings(ra, rb, score_a, k) ==
    LET ea == expected_score(ra, rb)
        new_ra == ra + k * (score_a - ea)
        new_rb == rb + k * ((EScale - score_a) - (EScale - ea))
    IN <<new_ra, new_rb>>

\* ------------------------------------------------------------------------
\* The fights table (written by scrape.py, read by backfill)
\* ------------------------------------------------------------------------
Fight(a, b, res, wc, title, method, rnd) ==
    [fighter_a_id |-> a, fighter_b_id |-> b, result |-> res,
     weight_class |-> wc, is_title_fight |-> title, method |-> method,
     finish_round |-> rnd]

\* Rows as scrape.py parse_event_fights / insert_fight can store them:
\* result is one of win_a, draw, nc, unknown; the weight class and the
\* method are free text taken from the page; the two names of a row are
\* whatever the page lists (get_or_create_fighter identifies by name).
FightKinds ==
    { Fight(1, 2, "win_a",   "Lightweight",  0, T_U_DEC,      None),
      Fight(2, 1, "win_a",   "Lightweight",  1, T_KO_TKO,     Some(1)),
      Fight(2, 3, "win_a",   "",             0, T_SUB,        Some(2)),
      Fight(3, 1, "draw",    NULL,           0, T_NULL,       None),
      Fight(1, 1, "win_a",   "Lightweight",  0, T_U_DEC,      None),
      Fight(1, 2, "win_a",   "unified",      0, T_KO_TKO,     Some(4)),
      Fight(1, 2, "nc",      "Lightweight",  0, T_OVERTURNED, None),
      Fight(2, 3, "unknown", "Lightweight",  1, T_EMPTY,      None) }

Dates == 1..MaxDate

\* The stored row: AUTOINCREMENT id (the position in insertion order) and
\* the ISO event date (an integer with the same order as the date text).
StoredFight(kind, id, date) ==
    [id |-> id, event_date |-> date] @@ kind

\* Every table of at most MaxFights rows drawn from kinds x dates
Tables(kinds, dates) ==
    UNION { { [i \in 1..n |-> StoredFight(ks[i], i, ds[i])] :
                ks \in [1..n -> kinds], ds \in [1..n -> dates] } :
            n \in 0..MaxFights }

\* ------------------------------------------------------------------------
\* The rating store: elo_history and current_elo
\* ------------------------------------------------------------------------
HistoryRow(fighter_id, fight_id, elo_type, elo_before, elo_after, fight_date) ==
    [fighter_id |-> fighter_id, fight_id |-> fight_id, elo_type |-> elo_type,
     elo_before |-> elo_before, elo_after |-> elo_after,
     fight_date |-> fight_date]

\* a table with no rows / a dict with no keys
EmptyMap == [k \in {} |-> 0]

\* Output of an earlier replay of some other data set, left in the store
StaleHistory ==
    << HistoryRow(1, 7, "unified", 1500 * RScale, 1516 * RScale, 1),
       HistoryRow(9, 7, "unified", 1500 * RScale, 1484 * RScale, 1) >>
StaleCurrent ==
    (<<1, "unified">> :> [rating |-> 1516 * RScale, fights_count |-> 1]) @@
    (<<9, "unified">> :> [rating |-> 1484 * RScale, fights_count |-> 1])

\* Variant: a new state already counts one fight.
RatingState_Counted == [rating |-> INITIAL_ELO * RScale, fights |-> 1]

\* dataclass RatingState
RatingState == [rating |-> INITIAL_ELO * RScale, fights |-> 0]

VARIABLES
    fights_tbl,     \* table fights, in id order
    db_history,     \* committed rows of elo_history, in id order
    db_current,     \* committed rows of current_elo, by primary key
    tx_history,     \* elo_history as seen inside the connection of backfill
    tx_current,     \* current_elo as seen inside the connection of backfill
    pc,             \* position of backfill
    fights,         \* local: the fetched rows, ordered
    idx,            \* local: position of the for loop in fights
    ratings,        \* local: {(fighter_id, elo_type): RatingState}
    history_rows,   \* local: rows to insert into elo_history
    processed,      \* local counter
    skipped,        \* local counter
    summary,        \* the dict returned by backfill
    reply           \* what the last call of a read operation or of a pure
                    \* function returned

vars == <<fights_tbl, db_history, db_current, tx_history, tx_current, pc,
          fights, idx, ratings, history_rows, processed, skipped, summary,
          reply>>

locals == <<fights, idx, ratings, history_rows, processed, skipped>>

\* no call has returned yet
NoReply == [op |-> "none"]

NoSummary == [fights_processed |-> 0, fights_skipped |-> 0,
              fighters_rated |-> 0, elo_tracks |-> 0]

\* ORDER BY f.event_date ASC, f.id ASC
Before(f, g) ==
    \/ f.event_date < g.event_date
    \/ f.event_date = g.event_date /\ f.id < g.id

\* Variant: the rows come back in id order only (ORDER BY f.id).
SortFights_ById(tbl) == tbl

\* SELECT ... FROM fights f ORDER BY f.event_date ASC, f.id ASC
SortFights(tbl) ==
    LET n == Len(tbl)
        rank(i) == Cardinality({j \in 1..n : Before(tbl[j], tbl[i])}) + 1
    IN [p \in 1..n |-> tbl[CHOOSE i \in 1..n : rank(i) = p]]

\* backfill.get_state: the dict after the lookup (the key is created lazily)
get_state(rs, fighter_id, elo_type) ==
    LET key == <<fighter_id, elo_type>> IN
    IF key \notin DOMAIN rs THEN rs @@ (key :> RatingState) ELSE rs

\* `x or default` on a TEXT column
OrText(x, default) == IF x = NULL \/ x = "" THEN default ELSE x
\* `fight["method"] or ""`
OrMethod(m) == IF m = T_NULL \/ m = T_EMPTY THEN T_EMPTY ELSE m

\* score_a of a rated result, in units of 1/EScale
ScoreOf(result) == IF result = "win_a" THEN EScale ELSE EScale \div 2

\* One iteration of `for elo_type in ["unified", weight_class]`:
\* the pair <<ratings, history_rows>> after it.
TrackUpdate(st, fight, elo_type, score_a, k) ==
    LET fa_id == fight.fighter_a_id
        fb_id == fight.fighter_b_id
        ka == <<fa_id, elo_type>>
        kb == <<fb_id, elo_type>>
        r0 == get_state(get_state(st[1], fa_id, elo_type), fb_id, elo_type)
        old_a == r0[ka].rating
        old_b == r0[kb].rating
        new == update_ratings(old_a, old_b, score_a, k)
        \* state_a.rating = new_a; state_a.fights += 1
        r1 == [r0 EXCEPT ![ka] = [rating |-> new[1], fights |-> @.fights + 1]]
        \* state_b.rating = new_b; state_b.fights += 1
        r2 == [r1 EXCEPT ![kb] = [rating |-> new[2], fights |-> @.fights + 1]]
    IN << r2,
          st[2] \o << HistoryRow(fa_id, fight.id, elo_type, old_a, new[1],
                                 fight.event_date),
                      HistoryRow(fb_id, fight.id, elo_type, old_b, new[2],
                                 fight.event_date) >> >>

\* The tracks a rated fight updates, in order
TracksOf(fight) == << "unified", OrText(fight.weight_class, "Unknown") >>

\* The body of the for loop for a rated fight (win_a or draw)
RateOne(st, fight) ==
    LET score_a == ScoreOf(fight.result)
        k == calculate_k(OrMethod(fight.method), fight.is_title_fight # 0,
                         fight.finish_round)
        tr == TracksOf(fight)
    IN TrackUpdate(TrackUpdate(st, fight, tr[1], score_a, k),
                   fight, tr[2], score_a, k)

\* Variant: only "nc" is filtered, an "unknown" result falls through to the
\* score chain and is rated as a draw.
IsSkipped_OnlyNc(fight) ==
    fight.result \notin {"win_a", "draw", "unknown"}

\* `if result in ("nc", "unknown")` and the final `else` of the score chain
IsSkipped(fight) ==
    \/ fight.result \in {"nc", "unknown"}
    \/ fight.result \notin {"win_a", "draw"}

TypeOK ==
    /\ pc \in {"idle", "loop", "standings", "commit", "done", "failed"}
    /\ processed \in Nat /\ skipped \in Nat /\ idx \in Nat

Init ==
    /\ fights_tbl \in Tables(FightKinds, Dates)
    /\ \E stale \in BOOLEAN :
          /\ db_history = IF stale THEN StaleHistory ELSE <<>>
          /\ db_current = IF stale THEN StaleCurrent ELSE EmptyMap
          /\ tx_history = db_history
          /\ tx_current = db_current
    /\ pc = "idle"
    /\ fights = <<>>
    /\ idx = 1
    /\ ratings = EmptyMap
    /\ history_rows = <<>>
    /\ processed = 0
    /\ skipped = 0
    /\ summary = NoSummary
    /\ reply = NoReply

\* Variant: the history of the previous run is kept.
delete_elo_history_Kept(tbl) == tbl

\* conn.execute("DELETE FROM elo_history")
delete_elo_history(tbl) == <<>>

\* conn.execute("DELETE FROM current_elo")
delete_current_elo(tbl) == EmptyMap

\* Rows the schema of the fights table admits but scrape.py never writes:
\* a result outside the four outcomes, an event date that is no ISO date.
MalformedKinds ==
    { Fight(1, 2, "win_b", "Lightweight", 0, T_U_DEC, None) }
UnparseableDates == {0}

WellFormedKinds ==
    { Fight(1, 2, "win_a", "Lightweight", 0, T_U_DEC, None),
      Fight(2, 1, "draw",  "Lightweight", 0, T_S_DEC, Some(3)),
      Fight(1, 2, "nc",    "Lightweight", 0, T_OVERTURNED, None) }

\* as Init, with fights tables that may hold malformed rows
InitMalformed ==
    /\ fights_tbl \in Tables(WellFormedKinds \cup MalformedKinds,
                             Dates \cup UnparseableDates)
    /\ db_history = <<>>
    /\ db_current = EmptyMap
    /\ tx_history = <<>>
    /\ tx_current = EmptyMap
    /\ pc = "idle"
    /\ fights = <<>>
    /\ idx = 1
    /\ ratings = EmptyMap
    /\ history_rows = <<>>
    /\ processed = 0
    /\ skipped = 0
    /\ summary = NoSummary
    /\ reply = NoReply

\* backfill, lines 153-182: connect, clear the previous ELO data inside the
\* connection's transaction, load the fights in order, initialise the locals
Begin ==
    /\ pc \in {"idle", "done", "failed"}
    /\ tx_history' = delete_elo_history(tx_history)
    /\ tx_current' = delete_current_elo(tx_current)
    /\ fights' = SortFights(fights_tbl)
    /\ idx' = 1
    /\ ratings' = EmptyMap
    /\ history_rows' = <<>>
    /\ processed' = 0
    /\ skipped' = 0
    /\ summary' = NoSummary
    /\ pc' = "loop"
    /\ UNCHANGED <<reply, fights_tbl, db_history, db_current>>

\* Variant: the skipped fight also reaches `processed += 1`.
SkipFight_Counted ==
    /\ pc = "loop"
    /\ idx <= Len(fights)
    /\ fights[idx].result \notin {"win_a", "draw"}
    /\ skipped' = skipped + 1
    /\ processed' = processed + 1
    /\ idx' = idx + 1
    /\ UNCHANGED <<reply, fights_tbl, db_history, db_current, tx_history, tx_current,
                   pc, fights, ratings, history_rows, summary>>

\* one iteration of the for loop that `continue`s
SkipFight ==
    /\ pc = "loop"
    /\ idx <= Len(fights)
    /\ IsSkipped(fights[idx])
    /\ skipped' = skipped + 1
    /\ idx' = idx + 1
    /\ UNCHANGED <<reply, fights_tbl, db_history, db_current, tx_history, tx_current,
                   pc, fights, ratings, history_rows, processed, summary>>

\* one iteration of the for loop that rates the fight
RateFight ==
    /\ pc = "loop"
    /\ idx <= Len(fights)
    /\ ~IsSkipped(fights[idx])
    /\ LET st == RateOne(<<ratings, history_rows>>, fights[idx]) IN
          /\ ratings' = st[1]
          /\ history_rows' = st[2]
    /\ processed' = processed + 1
    /\ idx' = idx + 1
    /\ UNCHANGED <<reply, fights_tbl, db_history, db_current, tx_history, tx_current,
                   pc, fights, skipped, summary>>

\* Variant: the bulk insert is committed on its own.
BulkInsert_Committed ==
    /\ pc = "loop"
    /\ idx > Len(fights)
    /\ tx_history' = tx_history \o history_rows
    /\ db_history' = tx_history'
    /\ pc' = "standings"
    /\ UNCHANGED <<reply, fights_tbl, db_current, tx_current, locals, summary>>

\* conn.executemany("INSERT INTO elo_history ...", history_rows)
BulkInsert ==
    /\ pc = "loop"
    /\ idx > Len(fights)
    /\ tx_history' = tx_history \o history_rows
    /\ pc' = "standings"
    /\ UNCHANGED <<reply, fights_tbl, db_history, db_current, tx_current,
                   locals, summary>>

\* INSERT OR REPLACE INTO current_elo, once per key of ratings
UpsertCurrent(tbl, rs) ==
    [key \in (DOMAIN tbl) \cup (DOMAIN rs) |->
        IF key \in DOMAIN rs
        THEN [rating |-> rs[key].rating, fights_count |-> rs[key].fights]
        ELSE tbl[key]]

WriteCurrent ==
    /\ pc = "standings"
    /\ tx_current' = UpsertCurrent(tx_current, ratings)
    /\ pc' = "commit"
    /\ UNCHANGED <<reply, fights_tbl, db_history, db_current, tx_history,
                   locals, summary>>

\* Variant: elo_tracks counts the keys of the dict, not the track names.
Summary_KeysCounted(p, s, rs) ==
    [fights_processed |-> p, fights_skipped |-> s,
     fighters_rated |-> Cardinality({key[1] : key \in DOMAIN rs}),
     elo_tracks |-> Cardinality(DOMAIN rs)]

\* the dict returned by backfill
Summary(p, s, rs) ==
    [fights_processed |-> p, fights_skipped |-> s,
     fighters_rated |-> Cardinality({key[1] : key \in DOMAIN rs}),
     elo_tracks |-> Cardinality({key[2] : key \in DOMAIN rs})]

\* conn.commit(); conn.close(); return {...}
Commit ==
    /\ pc = "commit"
    /\ db_history' = tx_history
    /\ db_current' = tx_current
    /\ summary' = Summary(processed, skipped, ratings)
    /\ pc' = "done"
    /\ UNCHANGED <<reply, fights_tbl, tx_history, tx_current, locals>>

\* An exception (sqlite3 error, interrupt) leaves backfill before the
\* commit: the connection is dropped and its transaction is rolled back.
Fail ==
    /\ pc \in {"loop", "standings", "commit"}
    /\ tx_history' = db_history
    /\ tx_current' = db_current
    /\ pc' = "failed"
    /\ fights' = <<>>
    /\ idx' = 1
    /\ ratings' = EmptyMap
    /\ history_rows' = <<>>
    /\ processed' = 0
    /\ skipped' = 0
    /\ UNCHANGED <<reply, fights_tbl, db_history, db_current, summary>>

Next ==
    \/ Begin
    \/ SkipFight
    \/ RateFight
    \/ BulkInsert
    \/ WriteCurrent
    \/ Commit
    \/ Fail

Spec == Init /\ [][Next]_vars

SpecMalformed == InitMalformed /\ [][Next]_vars

\* ------------------------------------------------------------------------
\* The weighting policy called on its own
\* ------------------------------------------------------------------------
\* method texts: what ufcstats.com shows, and variants in case and length
MethodTexts ==
    { T_KO, T_TKO, T_SUB, T_KO_TKO, T_ko, T_Tko, T_Submission, T_TKO_DOCTOR,
      T_U_DEC, T_S_DEC, T_DQ, T_OVERTURNED, T_CNC, T_OTHER, T_OK, T_K, T_SU,
      T_EMPTY }

\* finish_round: absent or a positive integer
Rounds == {None} \cup {Some(r) : r \in 1..MaxRound}

\* no fights stored, backfill not started, nothing returned
InitK ==
    /\ fights_tbl = <<>>
    /\ db_history = <<>>
    /\ db_current = EmptyMap
    /\ tx_history = <<>>
    /\ tx_current = EmptyMap
    /\ pc = "idle"
    /\ fights = <<>>
    /\ idx = 1
    /\ ratings = EmptyMap
    /\ history_rows = <<>>
    /\ processed = 0
    /\ skipped = 0
    /\ summary = NoSummary
    /\ reply = NoReply

\* classify_method(method) on a text
CallClassify ==
    /\ \E m \in MethodTexts :
          reply' = [op |-> "classify_method", method |-> m,
                    value |-> classify_method(m)]
    /\ UNCHANGED <<fights_tbl, db_history, db_current, tx_history, tx_current,
                   pc, locals, summary>>

\* backfill lines 192-206 on the columns of one stored fight:
\* calculate_k(fight["method"] or "", bool(is_title_fight), finish_round)
CallCalculateK ==
    /\ \E m \in MethodTexts \cup {T_NULL}, t \in {0, 1}, r \in Rounds :
          reply' = [op |-> "calculate_k", method |-> m, is_title_fight |-> t,
                    finish_round |-> r,
                    value |-> calculate_k(OrMethod(m), t # 0, r)]
    /\ UNCHANGED <<fights_tbl, db_history, db_current, tx_history, tx_current,
                   pc, locals, summary>>

NextK ==
    \/ CallClassify
    \/ CallCalculateK

SpecK == InitK /\ [][NextK]_vars

\* ------------------------------------------------------------------------
\* The read side: elo.predict and the endpoints of api.py
\* ------------------------------------------------------------------------
\* fights as scraped for the read side: a decision, a no contest between two
\* fighters who have no other fight, a draw without weight class
ReadKinds ==
    { Fight(1, 2, "win_a", "Lightweight", 0, T_U_DEC,      None),
      Fight(2, 3, "nc",    "Lightweight", 0, T_OVERTURNED, None),
      Fight(3, 1, "draw",  NULL,          0, T_NULL,       None) }

\* all read-side fights are of one event
ReadDates == {1}

\* the fighters table: insert_fight creates a row for both names of a fight
Fighters(tbl) ==
    {tbl[i].fighter_a_id : i \in DOMAIN tbl}
        \cup {tbl[i].fighter_b_id : i \in DOMAIN tbl}

\* fighters.name of a fighter (UNIQUE); the empty sequence is the empty text
NameOf(id) == <<id>>

\* names a caller can ask for: the empty text and the names on the pages
ReadNames ==
    {<<>>} \cup UNION { {NameOf(k.fighter_a_id), NameOf(k.fighter_b_id)} :
                          k \in ReadKinds }

\* ?type= / elo_type arguments
ReadTracks == {"unified", "Lightweight"}

\* round(x, 1): the rating in tenths of a point
Round1(x) == (x + (RScale \div KScale) \div 2) \div (RScale \div KScale)

\* get_elo of predict and api_predict: fetchone() of current_elo JOIN
\* fighters WHERE f.name = ? AND ce.elo_type = ?
get_elo(cur, tbl, name, elo_type) ==
    IF /\ name # <<>>
       /\ name[1] \in Fighters(tbl)
       /\ <<name[1], elo_type>> \in DOMAIN cur
    THEN Some(cur[<<name[1], elo_type>>])
    ELSE None

\* the store is empty, the ELO tables exist (an earlier backfill of an empty
\* fights table created them) and no call has returned
InitRead ==
    /\ fights_tbl \in Tables(ReadKinds, ReadDates)
    /\ db_history = <<>>
    /\ db_current = EmptyMap
    /\ tx_history = <<>>
    /\ tx_current = EmptyMap
    /\ pc = "idle"
    /\ fights = <<>>
    /\ idx = 1
    /\ ratings = EmptyMap
    /\ history_rows = <<>>
    /\ processed = 0
    /\ skipped = 0
    /\ summary = NoSummary
    /\ reply = NoReply

\* elo.py predict(fighter_a, fighter_b, elo_type)
Predict ==
    /\ \E a \in ReadNames, b \in ReadNames, t \in ReadTracks :
          LET ra == get_elo(db_current, fights_tbl, a, t)
              rb == get_elo(db_current, fights_tbl, b, t)
              call == [op |-> "predict", a |-> a, b |-> b, elo_type |-> t]
          IN reply' =
               IF ra = None
               THEN call @@ [status |-> "ValueError", missing |-> a]
               ELSE IF rb = None
               THEN call @@ [status |-> "ValueError", missing |-> b]
               ELSE LET prob_a == expected_score(ra[1].rating, rb[1].rating)
                    IN call @@ [status |-> "ok",
                                elo_a |-> Round1(ra[1].rating),
                                elo_b |-> Round1(rb[1].rating),
                                win_prob_a |-> prob_a,
                                win_prob_b |-> EScale - prob_a]
    /\ UNCHANGED <<fights_tbl, db_history, db_current, tx_history, tx_current,
                   pc, locals, summary>>

\* api.py api_predict: GET /api/predict?a=&b=&type=
ApiPredict ==
    /\ \E a \in ReadNames, b \in ReadNames, t \in ReadTracks :
          LET ra_row == get_elo(db_current, fights_tbl, a, t)
              rb_row == get_elo(db_current, fights_tbl, b, t)
              call == [op |-> "api_predict", a |-> a, b |-> b, elo_type |-> t]
          IN reply' =
               IF a = <<>> \/ b = <<>>
               THEN call @@ [status |-> "400"]
               ELSE IF ra_row = None
               THEN call @@ [status |-> "404", missing |-> a]
               ELSE IF rb_row = None
               THEN call @@ [status |-> "404", missing |-> b]
               ELSE LET prob_a == expected_score(ra_row[1].rating,
                                                 rb_row[1].rating)
                    IN call @@ [status |-> "200",
                                elo_a |-> Round1(ra_row[1].rating),
                                elo_b |-> Round1(rb_row[1].rating),
                                fights_a |-> ra_row[1].fights_count,
                                fights_b |-> rb_row[1].fights_count,
                                win_prob_a |-> prob_a,
                                win_prob_b |-> EScale - prob_a]
    /\ UNCHANGED <<fights_tbl, db_history, db_current, tx_history, tx_current,
                   pc, locals, summary>>

\* api_fighter: the unified rows of a fighter in elo_history JOIN fights,
\* ORDER BY eh.fight_date ASC, eh.id ASC, as <<elo_before, elo_after>>
\* rounded to one decimal
UnifiedTrajectory(hist, tbl, fid) ==
    LET rows == {i \in DOMAIN hist :
                    /\ hist[i].fighter_id = fid
                    /\ hist[i].elo_type = "unified"
                    /\ hist[i].fight_id \in DOMAIN tbl}
        rank(i) == Cardinality({j \in rows :
                      \/ hist[j].fight_date < hist[i].fight_date
                      \/ hist[j].fight_date = hist[i].fight_date /\ j < i}) + 1
    IN [p \in 1..Cardinality(rows) |->
          LET i == CHOOSE i \in rows : rank(i) = p
          IN [elo_before |-> Round1(hist[i].elo_before),
              elo_after |-> Round1(hist[i].elo_after)]]

\* max((t["elo_after"] for t in trajectory), default=1500), then round(., 1)
PeakElo(trajectory) ==
    IF trajectory = <<>>
    THEN Round1(1500 * RScale)
    ELSE LET after == {trajectory[i].elo_after : i \in DOMAIN trajectory}
         IN CHOOSE m \in after : \A x \in after : x <= m

\* api.py api_fighter: GET /api/fighter/<name>; the parts of the answer that
\* carry a rating (ratings, peak_elo, trajectory)
ApiFighter ==
    /\ \E name \in ReadNames \ {<<>>} :
          LET call == [op |-> "api_fighter", name |-> name]
              fid == name[1]
              tracks == {t \in {k[2] : k \in DOMAIN db_current} :
                            <<fid, t>> \in DOMAIN db_current}
              trajectory == UnifiedTrajectory(db_history, fights_tbl, fid)
          IN reply' =
               IF fid \notin Fighters(fights_tbl)
               THEN call @@ [status |-> "404"]
               ELSE call @@
                    [status |-> "200",
                     ratings |-> [t \in tracks |->
                         [elo |-> Round1(db_current[<<fid, t>>].rating),
                          fights |-> db_current[<<fid, t>>].fights_count]],
                     peak_elo |-> PeakElo(trajectory),
                     trajectory |-> trajectory]
    /\ UNCHANGED <<fights_tbl, db_history, db_current, tx_history, tx_current,
                   pc, locals, summary>>

\* api.py api_search: GET /api/search?q=; q is given by its length test and
\* by the fighters whose name contains it.  The rows are kept as a set (there
\* are fewer than LIMIT 15 of them).
ApiSearch ==
    /\ \E short \in BOOLEAN, hits \in SUBSET Fighters(fights_tbl) :
          reply' =
            [op |-> "api_search", short |-> short, hits |-> hits,
             rows |-> IF short THEN {}
                      ELSE { [name |-> NameOf(f),
                              elo |-> IF <<f, "unified">> \in DOMAIN db_current
                                         /\ db_current[<<f, "unified">>].rating # 0
                                      THEN Some(Round1(
                                             db_current[<<f, "unified">>].rating))
                                      ELSE None,
                              fights |-> IF <<f, "unified">> \in DOMAIN db_current
                                         THEN db_current[<<f, "unified">>].fights_count
                                         ELSE 0] : f \in hits }]
    /\ UNCHANGED <<fights_tbl, db_history, db_current, tx_history, tx_current,
                   pc, locals, summary>>

NextRead ==
    \/ Next
    \/ Predict
    \/ ApiPredict
    \/ ApiFighter
    \/ ApiSearch

SpecRead == InitRead /\ [][NextRead]_vars


\* ------------------------------------------------------------------------
\* Properties
\* ------------------------------------------------------------------------
Running == pc \in {"loop", "standings", "commit"}

\* the stored record a history row refers to (ids are positions)
FightOf(row) == fights_tbl[row.fight_id]

RowsOf(h) == {h[i] : i \in 1..Len(h)}

NotRated == {"nc", "unknown"}

\* C1: when backfill finishes, processed + skipped is the number of input
\* records, the skipped ones are exactly the no-contest and unknown records,
\* and no history row refers to a no-contest or unknown record.
C1_SkipAccounting ==
    pc = "done" =>
        /\ processed + skipped = Len(fights_tbl)
        /\ skipped = Cardinality({i \in 1..Len(fights_tbl) :
                                    fights_tbl[i].result \in NotRated})
        /\ \A i \in 1..Len(fights_tbl) :
              (fights_tbl[i].result \in NotRated)
                  <=> ~(\E row \in RowsOf(db_history) : row.fight_id = i)

C1_Witness ==
    /\ pc = "done"
    /\ skipped > 0
    /\ processed > 0

\* C2: the step that handles a no-contest or unknown record leaves every
\* rating, every match count, the set of keys and the history list as they
\* were, and increments the skipped counter only.
C2_SkipFrame ==
    [][ ( /\ pc = "loop"
          /\ idx <= Len(fights)
          /\ fights[idx].result \in NotRated
          /\ idx' = idx + 1 )
        => ( /\ ratings' = ratings
             /\ history_rows' = history_rows
             /\ processed' = processed
             /\ skipped' = skipped + 1
             /\ tx_history' = tx_history
             /\ tx_current' = tx_current ) ]_vars

C2_Witness ==
    /\ pc = "loop"
    /\ idx > 2
    /\ fights[idx - 1].result \in NotRated
    /\ skipped = 1
    /\ processed = 1
    /\ Len(history_rows) = 4

\* rows 2j-1 and 2j of a history are the pair written by one track update
ZeroSum(h) ==
    \A j \in 1..(Len(h) \div 2) :
        (h[2 * j - 1].elo_after - h[2 * j - 1].elo_before)
            = 0 - (h[2 * j].elo_after - h[2 * j].elo_before)

LabelOf(f) == IF f.weight_class \in {NULL, ""} THEN "Unknown" ELSE f.weight_class

Rated(f) == f.result \in {"win_a", "draw"}

CountOf(rs, key) == IF key \in DOMAIN rs THEN rs[key].fights ELSE 0

\* the step that rates the record at the loop position
RateStep ==
    /\ pc = "loop"
    /\ idx <= Len(fights)
    /\ Rated(fights[idx])
    /\ idx' = idx + 1

\* C4: a processed match with category label C updates exactly two distinct
\* tracks, "unified" and C, for both participants: the match count of
\* (A, unified), (B, unified), (A, C), (B, C) grows by exactly 1 and every
\* other key keeps its rating and match count.
C4_TwoTracks ==
    [][ RateStep =>
        LET f == fights[idx]
            C == LabelOf(f)
            touched == { <<f.fighter_a_id, "unified">>, <<f.fighter_b_id, "unified">>,
                         <<f.fighter_a_id, C>>, <<f.fighter_b_id, C>> }
        IN /\ C # "unified"
           /\ \A key \in touched :
                 CountOf(ratings', key) = CountOf(ratings, key) + 1
           /\ \A key \in (DOMAIN ratings') \ touched :
                 /\ key \in DOMAIN ratings
                 /\ ratings'[key] = ratings[key] ]_vars

\* C5: after a replay the history holds 4 rows per processed match and no
\* two rows share competitor, match and track.
C5_OneRowPerKey ==
    pc = "done" =>
        /\ Len(db_history) = 4 * processed
        /\ \A i, j \in 1..Len(db_history) :
              ( /\ db_history[i].fighter_id = db_history[j].fighter_id
                /\ db_history[i].fight_id = db_history[j].fight_id
                /\ db_history[i].elo_type = db_history[j].elo_type ) => i = j

\* the rated records of a track in which a competitor took part
MatchesOf(fighter, track) ==
    { i \in 1..Len(fights_tbl) :
        /\ Rated(fights_tbl[i])
        /\ track \in {"unified", LabelOf(fights_tbl[i])}
        /\ fighter \in {fights_tbl[i].fighter_a_id, fights_tbl[i].fighter_b_id} }

TouchedKeys ==
    UNION { { <<fights_tbl[i].fighter_a_id, "unified">>,
              <<fights_tbl[i].fighter_b_id, "unified">>,
              <<fights_tbl[i].fighter_a_id, LabelOf(fights_tbl[i])>>,
              <<fights_tbl[i].fighter_b_id, LabelOf(fights_tbl[i])>> } :
            i \in {n \in 1..Len(fights_tbl) : Rated(fights_tbl[n])} }

\* C6: after a replay current_elo holds exactly one row per key touched by
\* a processed match, with the final in-memory rating and, as match count,
\* the number of processed matches of that track the competitor took part in.
C6_Standings ==
    pc = "done" =>
        /\ DOMAIN db_current = TouchedKeys
        /\ \A key \in DOMAIN db_current :
              /\ db_current[key].rating = ratings[key].rating
              /\ db_current[key].fights_count
                    = Cardinality(MatchesOf(key[1], key[2]))

\* (date, id) order of the stored records
Precedes(f, g) ==
    \/ f.event_date < g.event_date
    \/ f.event_date = g.event_date /\ f.id < g.id

Chronological(h) ==
    \A i, j \in 1..Len(h) :
        i < j => /\ h[i].fight_date <= h[j].fight_date
                 /\ ~Precedes(FightOf(h[j]), FightOf(h[i]))

\* C7: records are handled in ascending (date, id) order whatever their
\* stored order: the handled prefix is closed under (date, id) precedence,
\* and the history rows are in non-decreasing date order, no row coming
\* before a row of a record that precedes its own.
C7_ReplayOrder ==
    /\ Running =>
          /\ Len(fights) = Len(fights_tbl)
          /\ \A i \in 1..Len(fights) : fights[i] \in RowsOf(fights_tbl)
          /\ \A i, j \in 1..Len(fights) : i < j => Precedes(fights[i], fights[j])
    /\ Chronological(history_rows)
    /\ pc = "done" => Chronological(db_history)

C7_Witness ==
    /\ pc = "done"
    /\ Len(fights_tbl) = 2
    /\ fights_tbl[1].event_date > fights_tbl[2].event_date
    /\ Rated(fights_tbl[1])
    /\ Rated(fights_tbl[2])
    /\ db_history[1].fight_id = 2
    /\ db_history[Len(db_history)].fight_id = 1

\* a replay of a fights table against empty output tables
RECURSIVE ReplayFrom(_, _, _)
ReplayFrom(st, fs, i) ==
    IF i > Len(fs) THEN st
    ELSE ReplayFrom(IF Rated(fs[i]) THEN RateOne(st, fs[i]) ELSE st, fs, i + 1)

FreshReplay == ReplayFrom(<<EmptyMap, <<>>>>, SortFights(fights_tbl), 1)

\* C8: whatever the store held before, a finished replay leaves exactly the
\* history rows (in order) and the standing rows of a replay against empty
\* output tables; a second run leaves what the first one left.
C8_FullReplay ==
    pc = "done" =>
        /\ db_history = FreshReplay[2]
        /\ db_current = UpsertCurrent(EmptyMap, FreshReplay[1])

\* a run that started on the output of an earlier run is about to commit
\* the rows the store already holds
C8_Witness ==
    /\ pc = "commit"
    /\ Len(db_history) = 8
    /\ tx_history = db_history
    /\ tx_current = db_current

\* C9: the committed store changes only in the commit step, where it becomes
\* the complete output of the run; a failing run leaves it as it was.
C9_AtomicReplace ==
    [][ IF pc = "commit" /\ pc' = "done"
        THEN /\ idx > Len(fights)
             /\ processed + skipped = Len(fights_tbl)
             /\ db_history' = history_rows
             /\ db_current' = UpsertCurrent(EmptyMap, ratings)
        ELSE /\ db_history' = db_history
             /\ db_current' = db_current ]_vars

\* a run that started on the output of an earlier run has failed
C9_Witness ==
    /\ pc = "failed"
    /\ Len(db_history) = 8
    /\ tx_history = db_history
    /\ tx_current = db_current

WellFormed(f) ==
    /\ f.result \in {"win_a", "draw", "nc", "unknown"}
    /\ f.event_date \in Dates

\* C10: a malformed record is fatal to the run: the loop never gets past
\* one, neither by counting it as skipped nor by rating it.
C10_MalformedFatal ==
    (pc \in {"loop", "standings", "commit", "done"}) =>
        \A i \in 1..Len(fights) : i < idx => WellFormed(fights[i])

\* the text begins, in any letter case, with KO, TKO or SUB
BeginsWithFinish(m) ==
    \/ /\ Len(m) >= 2
       /\ m[1] \in {"K", "k"} /\ m[2] \in {"O", "o"}
    \/ /\ Len(m) >= 3
       /\ m[1] \in {"T", "t"} /\ m[2] \in {"K", "k"} /\ m[3] \in {"O", "o"}
    \/ /\ Len(m) >= 3
       /\ m[1] \in {"S", "s"} /\ m[2] \in {"U", "u"} /\ m[3] \in {"B", "b"}

\* the stored method is a finish (an absent one is none)
FinishStored(m) == m # T_NULL /\ BeginsWithFinish(m)

\* 10 x max(1.0, 1.3 - 0.1 * (round - 1))
DecayTenths(r) == IF r = 1 THEN 13 ELSE IF r = 2 THEN 12 ELSE IF r = 3 THEN 11 ELSE 10

ClaimedDecay(r) ==
    IF r = 1 THEN 130 ELSE IF r = 2 THEN 120 ELSE IF r = 3 THEN 110
    ELSE IF r = 4 THEN 105 ELSE 100

\* C12: for a finish with a known round the round multiplier of calculate_k
\* is 1.3, 1.2, 1.1, 1.05, 1.0 for round 1, 2, 3, 4, 5 and later.
\* (value is in tenths; both sides are scaled by 10000.)
C12_RoundDecay ==
    ( /\ reply.op = "calculate_k"
      /\ FinishStored(reply.method)
      /\ reply.finish_round # None )
    => reply.value * 10000
          = BASE_K * 15 * (IF reply.is_title_fight # 0 THEN 125 ELSE 100)
                   * ClaimedDecay(reply.finish_round[1])

\* C13: classify_method answers "finish" exactly for the texts that begin,
\* in any letter case, with KO, TKO or SUB and "decision" for every other
\* text; a fight whose stored method is absent gets the decision weight.
C13_Classify ==
    /\ reply.op = "classify_method" =>
          reply.value = IF BeginsWithFinish(reply.method) THEN "finish"
                        ELSE "decision"
    /\ (reply.op = "calculate_k" /\ reply.method = T_NULL) =>
          reply.value = IF reply.is_title_fight # 0 THEN 400 ELSE 320

C13_Witness ==
    /\ reply.op = "classify_method"
    /\ reply.method = T_Submission
    /\ reply.value = "finish"

\* the fighter of that name has a standing in that track
HasStanding(name, t) ==
    name # <<>> /\ <<name[1], t>> \in DOMAIN db_current

\* the stored standing rating of that name in that track, to one decimal
StandingElo(name, t) == Round1(db_current[<<name[1], t>>].rating)

\* the ratings, to one decimal, in the unified history rows of that name
HistoryElos(name) ==
    UNION { {Round1(db_history[i].elo_before), Round1(db_history[i].elo_after)} :
              i \in {j \in DOMAIN db_history :
                        /\ db_history[j].fighter_id = name[1]
                        /\ db_history[j].elo_type = "unified"} }

\* the answer r, given on the present store, reports a missing standing as
\* not found and carries only ratings of stored rows
AnswerFromStore(r) ==
    /\ r.op = "predict" =>
          /\ r.status = "ValueError"
                <=> ~(HasStanding(r.a, r.elo_type) /\ HasStanding(r.b, r.elo_type))
          /\ r.status # "ValueError" =>
                /\ r.elo_a = StandingElo(r.a, r.elo_type)
                /\ r.elo_b = StandingElo(r.b, r.elo_type)
    /\ (r.op = "api_predict" /\ r.status # "400") =>
          /\ r.status = "404"
                <=> ~(HasStanding(r.a, r.elo_type) /\ HasStanding(r.b, r.elo_type))
          /\ r.status = "200" =>
                /\ r.elo_a = StandingElo(r.a, r.elo_type)
                /\ r.elo_b = StandingElo(r.b, r.elo_type)
    /\ (r.op = "api_fighter" /\ r.status = "200") =>
          /\ \A t \in DOMAIN r.ratings :
                /\ HasStanding(r.name, t)
                /\ r.ratings[t].elo = StandingElo(r.name, t)
          /\ \A i \in DOMAIN r.trajectory :
                /\ r.trajectory[i].elo_before \in HistoryElos(r.name)
                /\ r.trajectory[i].elo_after \in HistoryElos(r.name)
          /\ r.peak_elo \in HistoryElos(r.name)
    /\ r.op = "api_search" =>
          \A row \in r.rows :
              row.elo # None =>
                  /\ HasStanding(row.name, "unified")
                  /\ row.elo = Some(StandingElo(row.name, "unified"))

\* C14: a lookup of a competitor/track without a standing is answered "not
\* found" (ValueError from predict, 404 from /api/predict), and every rating
\* in an answer of predict, /api/predict, /api/fighter (its peak rating
\* included) and /api/search is the rating of a stored standing or history
\* row, never one made up from the 1500 default.
C14_NoFabrication ==
    [][ (reply' # reply /\ UNCHANGED <<db_history, db_current>>)
            => AnswerFromStore(reply') ]_vars

\* C15: when the first processed match of a replay is an A-win between two
\* unseen competitors with weighting factor K, afterwards A has 1500 + K/2,
\* B has 1500 - K/2 and both match counts are 1, in the universal track and
\* in the category track: 1516 / 1484 for a non-title decision, 1539 / 1461
\* for a round-1 title finish.
C15_FirstMatch ==
    [][ ( /\ RateStep
          /\ processed = 0
          /\ fights[idx].result = "win_a"
          /\ fights[idx].fighter_a_id # fights[idx].fighter_b_id )
        =>
        LET f == fights[idx]
            K == calculate_k(OrMethod(f.method), f.is_title_fight # 0,
                             f.finish_round)
            half == (K * RScale) \div (2 * KScale)
            won == [rating |-> INITIAL_ELO * RScale + half, fights |-> 1]
            lost == [rating |-> INITIAL_ELO * RScale - half, fights |-> 1]
        IN /\ \A t \in {"unified", LabelOf(f)} :
                 /\ ratings'[<<f.fighter_a_id, t>>] = won
                 /\ ratings'[<<f.fighter_b_id, t>>] = lost
           /\ (~FinishStored(f.method) /\ f.is_title_fight = 0) =>
                 /\ won.rating = 1516 * RScale
                 /\ lost.rating = 1484 * RScale
           /\ ( /\ FinishStored(f.method)
                /\ f.is_title_fight # 0
                /\ f.finish_round = Some(1) ) =>
                 /\ won.rating = 1539 * RScale
                 /\ lost.rating = 1461 * RScale ]_vars

\* the stored records that have at least one history row
WithRows == {i \in DOMAIN fights_tbl : \E row \in RowsOf(db_history) : row.fight_id = i}

\* the category labels of the records that have history rows
CategoriesSeen == {LabelOf(fights_tbl[i]) : i \in WithRows}

\* the counts of the summary that both readings share
SummaryCounts ==
    /\ summary.fights_processed = Cardinality(WithRows)
    /\ summary.fights_skipped = Cardinality(DOMAIN fights_tbl \ WithRows)
    /\ summary.fighters_rated = Cardinality({key[1] : key \in DOMAIN db_current})
    /\ summary.elo_tracks = Cardinality({key[2] : key \in DOMAIN db_current})

\* C16 as stated: the summary of a finished replay agrees with the written
\* output: fights_processed counts the records with history rows,
\* fights_skipped those without, fighters_rated the competitors with a
\* standing row, elo_tracks the track names among the standing rows, which
\* is the universal track plus one per category seen in a processed match.
C16_SummaryAsStated ==
    pc = "done" =>
        /\ SummaryCounts
        /\ summary.elo_tracks = 1 + Cardinality(CategoriesSeen)

\* C16 amended: as above, but elo_tracks, the number of track names among
\* the standing rows, is 0 when no record was processed and otherwise the
\* number of distinct names among "unified" and the categories seen.
C16_Summary ==
    pc = "done" =>
        /\ SummaryCounts
        /\ summary.elo_tracks =
              Cardinality(IF WithRows = {} THEN {}
                          ELSE {"unified"} \cup CategoriesSeen)

C16_Witness ==
    /\ pc = "done"
    /\ summary = [fights_processed |-> 1, fights_skipped |-> 1,
                  fighters_rated |-> 2, elo_tracks |-> 2]
    /\ Len(db_history) = 4

\* the history rows of a (competitor, track) key in (date, insertion) order
ChainOf(key) ==
    LET rows == {i \in DOMAIN db_history :
                    <<db_history[i].fighter_id, db_history[i].elo_type>> = key}
        rank(i) == Cardinality({j \in rows :
                      \/ db_history[j].fight_date < db_history[i].fight_date
                      \/ /\ db_history[j].fight_date = db_history[i].fight_date
                         /\ j < i}) + 1
    IN [p \in 1..Cardinality(rows) |->
          db_history[CHOOSE i \in rows : rank(i) = p]]

\* the keys that have a history row or a standing row
StoredKeys ==
    DOMAIN db_current
        \cup {<<row.fighter_id, row.elo_type>> : row \in RowsOf(db_history)}

\* C17: after a replay the history rows of every competitor and track, in
\* (date, insertion) order, form an unbroken chain: the first rating-before
\* is 1500, each later rating-before is the previous rating-after, the
\* standing rating is the last rating-after and the standing's match count
\* is the length of the chain; also when both slots name one competitor.
C17_Chain ==
    pc = "done" =>
        \A key \in StoredKeys :
            LET c == ChainOf(key) IN
            /\ key \in DOMAIN db_current
            /\ c # <<>>
            /\ c[1].elo_before = INITIAL_ELO * RScale
            /\ \A p \in 2..Len(c) : c[p].elo_before = c[p - 1].elo_after
            /\ db_current[key].rating = c[Len(c)].elo_after
            /\ db_current[key].fights_count = Len(c)

\* the sum of the ratings that rs holds under the given keys
RECURSIVE RatingSum(_, _)
RatingSum(rs, keys) ==
    IF keys = {} THEN 0
    ELSE LET key == CHOOSE k \in keys : TRUE
         IN rs[key].rating + RatingSum(rs, keys \ {key})

\* the keys of one track in the in-memory dict
TrackKeys(t) == {key \in DOMAIN ratings : key[2] = t}

\* C18: after any prefix of the replay, in every track the ratings of the
\* competitors that have a state in the track sum to 1500 times their
\* number, whatever records were processed or skipped.
C18_MassConserved ==
    \A t \in {key[2] : key \in DOMAIN ratings} :
        RatingSum(ratings, TrackKeys(t))
            = INITIAL_ELO * RScale * Cardinality(TrackKeys(t))

\* the rows that the step appends to history_rows for the key
NewRowsOf(key) ==
    SelectSeq(SubSeq(history_rows', Len(history_rows) + 1, Len(history_rows')),
              LAMBDA row : <<row.fighter_id, row.elo_type>> = key)

\* the keys that the record at the loop position references
ReferencedKeys ==
    LET f == fights[idx]
    IN { <<f.fighter_a_id, "unified">>, <<f.fighter_b_id, "unified">>,
         <<f.fighter_a_id, LabelOf(f)>>, <<f.fighter_b_id, LabelOf(f)>> }

\* C19: a replay pass starts without rating states; during the pass a
\* (competitor, track) state is created only by the processed match that
\* first references it, from rating 1500 and match count 0; until the pass
\* returns (or ends in an exception, which discards the dict) it is never
\* deleted, and its match count never decreases.
C19_LazyStates ==
    [][ /\ (pc \notin {"loop", "standings", "commit"} /\ pc' = "loop")
            => ratings' = EmptyMap
        /\ (pc \in {"loop", "standings", "commit"} /\ pc' # "failed") =>
            /\ DOMAIN ratings \subseteq DOMAIN ratings'
            /\ \A key \in DOMAIN ratings :
                  ratings'[key].fights >= ratings[key].fights
            /\ \A key \in (DOMAIN ratings') \ (DOMAIN ratings) :
                  /\ RateStep
                  /\ key \in ReferencedKeys
                  /\ NewRowsOf(key) # <<>>
                  /\ NewRowsOf(key)[1].elo_before = INITIAL_ELO * RScale
                  /\ ratings'[key].fights = Len(NewRowsOf(key)) ]_vars

C19_Witness ==
    /\ pc = "loop"
    /\ idx = 3
    /\ <<1, "unified">> \in DOMAIN ratings
    /\ ratings[<<1, "unified">>].fights = 2
    /\ <<3, "unified">> \in DOMAIN ratings
    /\ ratings[<<3, "unified">>].fights = 1

====
